---- MODULE Spec2Model ----
(***************************************************************************)
(* A model of deepvoice3_pytorch/deepvoice3.py: the Encoder's speaker      *)
(* precondition, the AttentionLayer's masked softmax, and the Decoder's    *)
(* two modes (teacher-forced and incremental) with the state the           *)
(* incremental mode keeps on the decoder instance.                         *)
(*                                                                         *)
(* Numbers are scaled integers: frame elements and eps are in tenths,      *)
(* alignment weights are exact fractions <<numerator, denominator>>.       *)
(* The learned layers (fc1, convolutions, projections, fc2) are an         *)
(* unknown function of their input: what they emit is drawn from net.      *)
(***************************************************************************)
EXTENDS Integers, Sequences, FiniteSets, TLC

\* ------------------------------------------------------------- bounds
\* Length of the (padded) text, T_text.
TText == 2
\* How many decoder calls may reuse one encoder output.
MaxUses == 2

\* --------------------------------------------------- program constants
\* Decoder.__init__: self.max_decoder_steps = 200
max_decoder_steps == 200
\* Decoder.__init__: max_positions=512 (rows of both position tables)
max_positions == 512
\* _incremental_forward: "if t > 10 and is_end_of_frames(output)"
MinSteps == 10
\* is_end_of_frames(output, eps=0.2), in tenths
eps == 2

\* The two threads that may call into one decoder instance.
Callers == {1, 2}
\* The decoder's convolution stages (Decoder.convolutions), by index.
ConvIdx == {1, 2}
NConv == Cardinality(ConvIdx)
\* Decoder.__init__: convolutions=((128, 5),) * 4, the kernel size
KernelSize == 5
\* Elements of one output frame (in_dim * r), abstracted to two.
FrameIdx == {1, 2}
TextIdx == 1..TText

\* Python's None: the empty tuple, which no tensor or list of the model equals.
None == <<>>

\* A frame is one value per element, in tenths.
ZeroFrame == [i \in FrameIdx |-> 0]
\* The frames the network may emit: at eps on every element, or above eps
\* on one of them.
OutFrames == {[i \in FrameIdx |-> 2], [i \in FrameIdx |-> IF i = 1 THEN 2 ELSE 3]}
\* Raw attention scores (log2 of the unnormalised weight) over the text:
\* a peak on one text position.
Peak(j) == [i \in TextIdx |-> IF i = j THEN 1 ELSE 0]
\* The scores of every stage at one step: all stages peak on the first
\* position, or stage k peaks on position k (wrapping around the text).
StageScores == {[k \in ConvIdx |-> Peak(1)],
                [k \in ConvIdx |-> Peak(((k - 1) % TText) + 1)]}

\* Decoder.__init__(attention=...): which stages carry an AttentionLayer.
\* Every stage, the last stage only, or no stage.
AttentionConfigs == {[k \in ConvIdx |-> TRUE],
                     [k \in ConvIdx |-> k = NConv],
                     [k \in ConvIdx |-> FALSE]}
\* build_deepvoice3(n_speakers=...): a single-speaker or a multi-speaker model.
SpeakerCounts == {1, 2}

VARIABLES
    callers,                \* the threads that call into the model
    net,                    \* what the learned layers can emit
    workload,               \* the arguments the callers pass to the decoder
    n_speakers,             \* Encoder.n_speakers
    attention,              \* Decoder.attention: stage -> layer present
    is_inference_incremental, \* Decoder._is_inference_incremental
    forward,                \* the callable installed as decoder.forward
    orig_forward,           \* Decoder._orig_forward
    buffers,                \* conv.input_buffer of every decoder convolution
    pc,                     \* each caller's position in the code
    enc,                    \* each caller's encoder output (keys, values)
    args,                   \* the arguments of the caller's decoder call
    loc,                    \* the locals of the caller's decoder call
    result,                 \* what the caller's last call returned or raised
    history                 \* "fresh", "generated" or "raised"

vars == <<callers, net, workload, n_speakers, attention, is_inference_incremental,
          forward, orig_forward, buffers, pc, enc, args, loc, result, history>>

config == <<callers, net, workload, n_speakers, attention>>
decoder_state == <<is_inference_incremental, forward, orig_forward, buffers>>

\* ------------------------------------------------------------ fractions
Frac(n, d) == <<n, d>>
FracAdd(a, b) == <<a[1] * b[2] + b[1] * a[2], a[2] * b[2]>>
FracDiv(a, n) == <<a[1], a[2] * n>>
FracEq(a, b) == a[1] * b[2] = b[1] * a[2]
FracIsZero(a) == a[1] = 0 /\ a[2] # 0

RECURSIVE SumOver(_, _)
SumOver(f, S) ==
    IF S = {} THEN 0
    ELSE LET x == CHOOSE y \in S : TRUE IN f[x] + SumOver(f, S \ {x})

RECURSIVE FracSum(_, _)
FracSum(f, S) ==
    IF S = {} THEN Frac(0, 1)
    ELSE LET x == CHOOSE y \in S : TRUE IN FracAdd(f[x], FracSum(f, S \ {x}))

Exp2(n) == 2 ^ n

\* ------------------------------------------------ position encoding table
\* sin(pos), in tenths, of the first rows of the table.
SinTenths(pos) ==
    CASE pos = 1 -> 8 [] pos = 2 -> 9 [] pos = 3 -> 1
      [] pos = 4 -> -8 [] pos = 5 -> -10 [] OTHER -> -3

\* position_encoding_init: row 0 is the zero vector, row pos >= 1 is
\* sin(pos / 10000^0) on dimension 0 (the one dimension kept here).
position_encoding_init(pos) == IF pos = 0 THEN 0 ELSE SinTenths(pos)

\* Embedding lookup: an index outside the table raises.
InTable(pos) == pos >= 0 /\ pos < max_positions
LookupOk(positions) == \A i \in DOMAIN positions : InTable(positions[i])

\* text_positions: 1..T_text, or one with an index beyond the table.
ValidTextPositions == [i \in TextIdx |-> i]
LongTextPositions == [i \in TextIdx |-> max_positions - 1 + i]
TextPositionArgs == {None, ValidTextPositions, LongTextPositions}

\* ------------------------------------------------------------- attention
\* get_mask_from_lengths: mask[idx][:l] = 1, then ~mask: TRUE at padding.
get_mask_from_lengths(lengths) == [i \in TextIdx |-> ~(i <= lengths[1])]

\* AttentionLayer.forward, the alignment it returns: masked positions are
\* filled with -inf (weight 0) and a softmax is taken over the text axis.
AttentionLayer(scores, mask) ==
    LET w == [i \in TextIdx |->
                 IF mask # None /\ mask[i] THEN 0 ELSE Exp2(scores[i])]
        total == SumOver(w, TextIdx)
    IN  [i \in TextIdx |-> Frac(w[i], total)]

\* -------------------------------------------------------------- encoder
\* Mutant: the speaker layers are built for every speaker count.
HasSpeakerLayersAlways(n) == n >= 1

\* Encoder.__init__: speaker_fc1, speaker_fc2 exist only if n_speakers > 1.
HasSpeakerLayers(n) == n > 1

\* Encoder.forward: the assertion, then the first use of speaker_fc1.
EncoderForward(n, has_embed) ==
    IF ~(n = 1 \/ has_embed) THEN "AssertionError"
    ELSE IF has_embed /\ ~HasSpeakerLayers(n) THEN "AttributeError"
    ELSE "ok"

\* The keys and the values the encoder emits for the text (one channel per
\* text position, in tenths).
EncoderKeys == [i \in TextIdx |-> i]
EncoderValues == [i \in TextIdx |-> i + 1]

NoEnc == [keys |-> None, values |-> None, keys0 |-> None, uses |-> 0]
NoArgs == [inputs |-> None, text_positions |-> None, lengths |-> None]
NoLoc == [t |-> 0, current_input |-> None, x_in |-> None, frame_pos |-> 0,
          n_outputs |-> 0, last_output |-> None, n_alignments |-> 0,
          ave_alignment |-> None, alignments |-> None, all_silent |-> TRUE,
          stopped |-> "no"]
NoResult == [kind |-> "none", at |-> "none", has_embed |-> FALSE]

FullNet == [frames |-> OutFrames, scores |-> StageScores]
SilentNet == [frames |-> {[i \in FrameIdx |-> 2]},
              scores |-> {[k \in ConvIdx |-> Peak(1)]}]

\* Any call: target frames or none, text positions or none, lengths or none.
AnyCall == [inputs |-> {None, <<ZeroFrame>>},
            text_positions |-> TextPositionArgs,
            lengths |-> {None} \cup {<<l>> : l \in TextIdx}]
\* Incremental generations only: decoder(encoder_out, text_positions=...).
Generations == [inputs |-> {None},
                text_positions |-> {ValidTextPositions},
                lengths |-> {None}]

InitDecoder ==
    /\ is_inference_incremental = FALSE
    /\ forward = "forward"
    /\ orig_forward = None
    /\ buffers = [k \in ConvIdx |-> <<>>]
    /\ pc = [c \in Callers |-> "idle"]
    /\ enc = [c \in Callers |-> NoEnc]
    /\ args = [c \in Callers |-> NoArgs]
    /\ loc = [c \in Callers |-> NoLoc]
    /\ result = [c \in Callers |-> NoResult]
    /\ history = "fresh"

\* One caller; the network may emit any frame.
Init ==
    /\ callers = {1}
    /\ net = FullNet
    /\ workload = AnyCall
    /\ n_speakers \in SpeakerCounts
    /\ attention \in AttentionConfigs
    /\ InitDecoder

\* A decoder call raises: the exception leaves through every frame.
Raise(c, kind, line) ==
    /\ pc' = [pc EXCEPT ![c] = "raised"]
    /\ result' = [result EXCEPT ![c] = [NoResult EXCEPT !.kind = kind, !.at = line]]
    /\ history' = "raised"

\* DeepVoice3.forward, lines 71-78: the encoder is run on the text.
Encode(c) ==
    /\ c \in callers
    /\ pc[c] = "idle"
    /\ \E has_embed \in BOOLEAN :
         LET r == EncoderForward(n_speakers, has_embed) IN
         /\ enc' = [enc EXCEPT ![c] =
                       IF r = "ok"
                       THEN [keys |-> EncoderKeys, values |-> EncoderValues,
                             keys0 |-> EncoderKeys, uses |-> 0]
                       ELSE NoEnc]
         /\ result' = [result EXCEPT ![c] =
                          [kind |-> IF r = "ok" THEN "encoded" ELSE r,
                           at |-> "Encoder.forward",
                           has_embed |-> has_embed]]
    /\ UNCHANGED <<config, decoder_state, pc, args, loc, history>>

\* A call of the decoder on the caller's encoder output. Through the module
\* (line 81, decoder(...)) the call goes to whatever is installed as
\* decoder.forward: _incremental_forward(encoder_out, text_positions) does not
\* take the arguments of forward and raises TypeError before its body runs.
\* Through the method itself (Decoder.forward) the body at line 306 runs.
Call(c) ==
    /\ c \in callers
    /\ pc[c] = "idle"
    /\ enc[c] # NoEnc
    /\ enc[c].uses < MaxUses
    /\ \E entry \in {"module", "method"},
          inputs \in workload.inputs,
          tp \in workload.text_positions,
          lengths \in workload.lengths :
         /\ args' = [args EXCEPT ![c] = [inputs |-> inputs,
                                         text_positions |-> tp,
                                         lengths |-> lengths]]
         /\ enc' = [enc EXCEPT ![c].uses = @ + 1]
         /\ IF entry = "module" /\ forward = "_incremental_forward"
            THEN Raise(c, "TypeError", "L81")
            ELSE /\ pc' = [pc EXCEPT ![c] = "L306"]
                 /\ result' = [result EXCEPT ![c] = NoResult]
                 /\ UNCHANGED history
    /\ UNCHANGED <<config, decoder_state, loc>>

\* Decoder.forward, lines 306-308: the branch on inputs.
Forward306(c) ==
    /\ pc[c] = "L306"
    /\ IF args[c].inputs = None
       THEN IF args[c].text_positions = None
            THEN Raise(c, "AssertionError", "L307")
            ELSE /\ pc' = [pc EXCEPT ![c] = "L408"]
                 /\ UNCHANGED <<result, history>>
       ELSE /\ pc' = [pc EXCEPT ![c] = "L318"]
            /\ UNCHANGED <<result, history>>
    /\ UNCHANGED <<config, decoder_state, enc, args, loc>>

\* The stages that carry an attention layer.
AttentionStages == {k \in ConvIdx : attention[k]}

\* Decoder.forward, lines 318-375: the teacher-forced pass (one query step).
TeacherForced(c) ==
    /\ pc[c] = "L318"
    /\ LET tp == args[c].text_positions
           mask == IF args[c].lengths # None
                   THEN get_mask_from_lengths(args[c].lengths) ELSE None
       IN
       IF tp # None /\ ~LookupOk(tp)
       THEN /\ Raise(c, "IndexError", "L327")
            /\ UNCHANGED <<enc, loc>>
       ELSE
         \E sc \in net.scores :
           \* line 328: keys += text_pos_embed
           /\ enc' = [enc EXCEPT ![c].keys =
                        IF tp = None THEN @
                        ELSE [i \in TextIdx |-> @[i] + position_encoding_init(tp[i])]]
           /\ IF AttentionStages = {}
              THEN \* line 375: torch.stack of an empty list
                   /\ Raise(c, "RuntimeError", "L375")
                   /\ UNCHANGED loc
              ELSE /\ loc' = [loc EXCEPT ![c].alignments =
                                 [k \in ConvIdx |->
                                     IF attention[k] THEN AttentionLayer(sc[k], mask)
                                     ELSE None]]
                   /\ pc' = [pc EXCEPT ![c] = "returned"]
                   /\ result' = [result EXCEPT ![c] =
                                    [NoResult EXCEPT !.kind = "teacher_forced"]]
                   /\ UNCHANGED history
    /\ UNCHANGED <<config, decoder_state, args>>

\* ------------------------------------------------ incremental inference
\* LinearizedConv1d.clear_buffer: the input buffer is dropped.
clear_buffer == <<>>

\* LinearizedConv1d.incremental_forward: the new frame enters the buffer and
\* the oldest leaves once kernel_size frames are held. A frame is recorded
\* by the caller whose generation fed it.
incremental_forward(buf, c) ==
    LET b == Append(buf, c) IN IF Len(b) > KernelSize THEN Tail(b) ELSE b

\* Mutant: start_fresh_sequence runs before the decoder is marked, so its
\* guard is false and it clears nothing.
start_fresh_sequence_unmarked(flag, bufs) == bufs

\* Decoder.start_fresh_sequence: the buffers are cleared only while the
\* decoder is marked as performing incremental inference.
start_fresh_sequence(flag, bufs) ==
    IF flag THEN [k \in ConvIdx |-> clear_buffer] ELSE bufs

\* Mutant: a strict comparison with eps.
is_end_of_frames_strict(output) == \A i \in FrameIdx : output[i] < eps

\* is_end_of_frames: (output.data <= eps).all()
is_end_of_frames(output) == \A i \in FrameIdx : output[i] <= eps

\* Mutant: the buffers are cleared before the re-entrancy assertion runs.
Start408ClearsFirst(c) ==
    /\ pc[c] = "L408"
    /\ buffers' = [k \in ConvIdx |-> clear_buffer]
    /\ IF is_inference_incremental
       THEN Raise(c, "AssertionError", "L408")
       ELSE /\ pc' = [pc EXCEPT ![c] = "L410"]
            /\ UNCHANGED <<result, history>>
    /\ UNCHANGED <<config, is_inference_incremental, forward, orig_forward,
                   enc, args, loc>>

\* _start_incremental_inference, line 408: the re-entrancy assertion.
Start408(c) ==
    /\ pc[c] = "L408"
    /\ IF is_inference_incremental
       THEN Raise(c, "AssertionError", "L408")
       ELSE /\ pc' = [pc EXCEPT ![c] = "L410"]
            /\ UNCHANGED <<result, history>>
    /\ UNCHANGED <<config, decoder_state, enc, args, loc>>

\* line 410: self._is_inference_incremental = True
Start410(c) ==
    /\ pc[c] = "L410"
    /\ is_inference_incremental' = TRUE
    /\ pc' = [pc EXCEPT ![c] = "L413"]
    /\ UNCHANGED <<config, forward, orig_forward, buffers, enc, args, loc,
                   result, history>>

\* line 413: self._orig_forward = self.forward
Start413(c) ==
    /\ pc[c] = "L413"
    /\ orig_forward' = forward
    /\ pc' = [pc EXCEPT ![c] = "L416"]
    /\ UNCHANGED <<config, is_inference_incremental, forward, buffers, enc,
                   args, loc, result, history>>

\* line 416: self.forward = self._incremental_forward
Start416(c) ==
    /\ pc[c] = "L416"
    /\ forward' = "_incremental_forward"
    /\ pc' = [pc EXCEPT ![c] = "L419"]
    /\ UNCHANGED <<config, is_inference_incremental, orig_forward, buffers,
                   enc, args, loc, result, history>>

\* line 419: self.start_fresh_sequence(), then forward's line 309 calls
\* self._incremental_forward(encoder_out, text_positions).
Start419(c) ==
    /\ pc[c] = "L419"
    /\ buffers' = start_fresh_sequence(is_inference_incremental, buffers)
    /\ pc' = [pc EXCEPT ![c] = "L428"]
    /\ UNCHANGED <<config, is_inference_incremental, forward, orig_forward,
                   enc, args, loc, result, history>>

\* _incremental_forward, lines 428-446: the assertion, the key position
\* encodings (keys += text_pos_embed), t = 0 and the all-zero initial input.
Prologue428(c) ==
    /\ pc[c] = "L428"
    /\ LET tp == args[c].text_positions IN
       IF ~is_inference_incremental
       THEN /\ Raise(c, "AssertionError", "L428")
            /\ UNCHANGED <<enc, loc>>
       ELSE IF ~LookupOk(tp)
       THEN /\ Raise(c, "IndexError", "L434")
            /\ UNCHANGED <<enc, loc>>
       ELSE /\ enc' = [enc EXCEPT ![c].keys =
                          [i \in TextIdx |-> @[i] + position_encoding_init(tp[i])]]
            /\ loc' = [loc EXCEPT ![c] = [NoLoc EXCEPT !.current_input = ZeroFrame]]
            /\ pc' = [pc EXCEPT ![c] = "L448"]
            /\ UNCHANGED <<result, history>>
    /\ UNCHANGED <<config, decoder_state, args>>

\* Mutant: the output is never fed back.
StepInputInitial(t, current_input, last_output) == current_input

\* The input of step t, lines 451-452.
StepInput(t, current_input, last_output) ==
    IF t > 0 THEN last_output ELSE current_input

\* The query position index of step t, line 448.
FramePos(t) == t + 1

VecAdd(a, b) == [i \in TextIdx |-> FracAdd(a[i], b[i])]
VecDiv(a, n) == [i \in TextIdx |-> FracDiv(a[i], n)]

\* Lines 461-478: the accumulation over the stages, in order.
RECURSIVE Accumulate(_, _, _)
Accumulate(k, ave, aligns) ==
    IF k > NConv THEN ave
    ELSE IF aligns[k] = None THEN Accumulate(k + 1, ave, aligns)
    ELSE IF ave = None THEN Accumulate(k + 1, aligns[k], aligns)
    ELSE Accumulate(k + 1, VecAdd(ave, ave), aligns)

\* Line 483: ave_alignment.div_(len(self.attention)); self.attention has one
\* entry per stage, None where the stage has no attention layer.
AveAlignment(aligns) ==
    LET ave == Accumulate(1, None, aligns) IN
    IF ave = None THEN None ELSE VecDiv(ave, NConv)

\* Mutant: no forced stop at the step cap.
StopReasonNoCap(t, output) ==
    IF t > MinSteps /\ is_end_of_frames(output) THEN "end_of_frames" ELSE "no"

\* Lines 491-496: whether the loop is left after the step that made t.
StopReason(t, output) ==
    IF t > MinSteps /\ is_end_of_frames(output) THEN "end_of_frames"
    ELSE IF t > max_decoder_steps THEN "max_decoder_steps"
    ELSE "no"

\* _incremental_forward, lines 448-496: one pass of the while loop.
Step(c) ==
    /\ pc[c] = "L448"
    /\ \E output \in net.frames, sc \in net.scores :
         LET t == loc[c].t
             x_in == StepInput(t, loc[c].current_input, loc[c].last_output)
             aligns == [k \in ConvIdx |->
                          IF attention[k] THEN AttentionLayer(sc[k], None) ELSE None]
             ave == AveAlignment(aligns)
             stop == StopReason(t + 1, output)
         IN
         IF ~InTable(FramePos(t))
         THEN /\ Raise(c, "IndexError", "L449")
              /\ UNCHANGED <<buffers, loc>>
         ELSE
           \* line 467: conv.incremental_forward(x) for every stage
           /\ buffers' = [k \in ConvIdx |-> incremental_forward(buffers[k], c)]
           /\ IF ave = None
              THEN \* line 483: None has no div_
                   /\ Raise(c, "AttributeError", "L483")
                   /\ UNCHANGED loc
              ELSE /\ loc' = [loc EXCEPT ![c] =
                                [t |-> t + 1,
                                 current_input |-> x_in,
                                 x_in |-> x_in,
                                 frame_pos |-> FramePos(t),
                                 n_outputs |-> loc[c].n_outputs + 1,
                                 last_output |-> output,
                                 n_alignments |-> loc[c].n_alignments + 1,
                                 ave_alignment |-> ave,
                                 alignments |-> aligns,
                                 all_silent |-> loc[c].all_silent
                                               /\ \A i \in FrameIdx : output[i] <= eps,
                                 stopped |-> stop]]
                   /\ pc' = [pc EXCEPT ![c] = IF stop = "no" THEN "L448" ELSE "L423"]
                   /\ UNCHANGED <<result, history>>
    /\ UNCHANGED <<config, is_inference_incremental, forward, orig_forward,
                   enc, args>>

\* Lines 498-506 stack the outputs; _stop_incremental_inference, line 423:
\* self.forward = self._orig_forward
Stop423(c) ==
    /\ pc[c] = "L423"
    /\ forward' = orig_forward
    /\ pc' = [pc EXCEPT ![c] = "L425"]
    /\ UNCHANGED <<config, is_inference_incremental, orig_forward, buffers,
                   enc, args, loc, result, history>>

\* Mutant: the flag is not cleared on the way out.
Stop425KeepsFlag(c) ==
    /\ pc[c] = "L425"
    /\ pc' = [pc EXCEPT ![c] = "returned"]
    /\ result' = [result EXCEPT ![c] = [NoResult EXCEPT !.kind = "generated"]]
    /\ history' = IF history = "raised" THEN "raised" ELSE "generated"
    /\ UNCHANGED <<config, decoder_state, enc, args, loc>>

\* line 425: self._is_inference_incremental = False; line 311 returns.
Stop425(c) ==
    /\ pc[c] = "L425"
    /\ is_inference_incremental' = FALSE
    /\ pc' = [pc EXCEPT ![c] = "returned"]
    /\ result' = [result EXCEPT ![c] =
                     [NoResult EXCEPT !.kind = "generated"]]
    /\ history' = IF history = "raised" THEN "raised" ELSE "generated"
    /\ UNCHANGED <<config, forward, orig_forward, buffers, enc, args, loc>>

\* The caller takes the result or the exception and is ready to call again.
Done(c) ==
    /\ pc[c] \in {"returned", "raised"}
    /\ pc' = [pc EXCEPT ![c] = "idle"]
    /\ loc' = [loc EXCEPT ![c] = NoLoc]
    /\ args' = [args EXCEPT ![c] = NoArgs]
    /\ UNCHANGED <<config, decoder_state, enc, result, history>>

Next ==
    \E c \in Callers :
        \/ Encode(c)
        \/ Call(c)
        \/ Forward306(c)
        \/ TeacherForced(c)
        \/ Start408(c)
        \/ Start410(c)
        \/ Start413(c)
        \/ Start416(c)
        \/ Start419(c)
        \/ Prologue428(c)
        \/ Step(c)
        \/ Stop423(c)
        \/ Stop425(c)
        \/ Done(c)

Spec == Init /\ [][Next]_vars

\* Two callers share the decoder; each statement of a call is one step of
\* its thread, and the steps of the two threads interleave freely.
InitConc ==
    /\ callers = Callers
    /\ net = SilentNet
    /\ workload = Generations
    /\ n_speakers = 1
    /\ attention = [k \in ConvIdx |-> TRUE]
    /\ InitDecoder

NextConc ==
    \E c \in Callers :
        \/ Encode(c)
        \/ Call(c)
        \/ Forward306(c)
        \/ Start408(c)
        \/ Start410(c)
        \/ Start413(c)
        \/ Start416(c)
        \/ Start419(c)
        \/ Prologue428(c)
        \/ Step(c)
        \/ Stop423(c)
        \/ Stop425(c)
        \/ Done(c)

SpecConc == InitConc /\ [][NextConc]_vars
\* ------------------------------------------------------------ properties
InGeneration == {"L410", "L413", "L416", "L419", "L428", "L448", "L423", "L425"}
LoopLeft == {"L423", "L425", "returned"}

\* C1: a start on a decoder already marked as performing incremental
\* inference raises AssertionError at once and leaves the flag, the
\* installed forward, the saved forward and every buffer as they were.
C1_FailedStartChangesNothing ==
    [][\A c \in Callers :
         (pc[c] = "L408" /\ is_inference_incremental /\ pc'[c] # pc[c])
         => /\ pc'[c] = "raised"
            /\ result'[c].kind = "AssertionError"
            /\ result'[c].at = "L408"
            /\ UNCHANGED decoder_state]_vars

\* A start has failed while the other caller's generation is under way.
C1_Witness ==
    \E c, d \in Callers :
        /\ c # d
        /\ pc[c] = "raised" /\ result[c].at = "L408"
        /\ pc[d] = "L448" /\ loc[d].t > 0
        /\ is_inference_incremental
        /\ forward = "_incremental_forward"
        /\ \A k \in ConvIdx : buffers[k] # <<>>

\* C2: at most one caller is inside the generation loop at any time, and
\* no buffer holds frames of two callers' generations.
C2_OneGenerationAtATime ==
    /\ Cardinality({c \in Callers : pc[c] = "L448"}) <= 1
    /\ \A k \in ConvIdx : \A i, j \in DOMAIN buffers[k] : buffers[k][i] = buffers[k][j]

\* C3: the per-step block runs at most max_decoder_steps + 1 times in a
\* generation, and a generation whose loop was left (by either stop) goes on
\* to return its frames: it does not raise.
C3_TerminatesWithinCap ==
    \A c \in Callers :
        /\ loc[c].t <= max_decoder_steps + 1
        /\ loc[c].n_outputs = loc[c].t
        /\ loc[c].stopped # "no" => pc[c] \in LoopLeft
        /\ pc[c] = "L448" /\ loc[c].t = max_decoder_steps + 1 => FALSE

\* A generation was force-stopped at the cap and has returned 201 frames.
C3_Witness ==
    \E c \in Callers :
        /\ pc[c] = "returned"
        /\ loc[c].stopped = "max_decoder_steps"
        /\ loc[c].n_outputs = max_decoder_steps + 1

\* C4: while every generated frame is at or below eps, the loop goes on up
\* to t = 10 and is left at t = 11 with 11 frames and 11 alignment rows.
C4_SilentStopsAtEleven ==
    \A c \in Callers :
        (loc[c].n_outputs >= 1 /\ loc[c].all_silent)
        => /\ loc[c].stopped = "no" <=> loc[c].t <= MinSteps
           /\ loc[c].stopped # "no"
              => /\ loc[c].stopped = "end_of_frames"
                 /\ loc[c].t = MinSteps + 1
                 /\ loc[c].n_outputs = MinSteps + 1
                 /\ loc[c].n_alignments = MinSteps + 1

\* An all-silent generation has returned.
C4_Witness ==
    \E c \in Callers :
        /\ pc[c] = "returned"
        /\ loc[c].all_silent
        /\ loc[c].n_outputs = MinSteps + 1

\* C5: as long as every decoder call so far returned normally, a caller that
\* is between calls, or entering one, finds the decoder idle: the flag is
\* false and the installed forward is the dispatching forward.
C5_IdleBetweenCalls ==
    history # "raised" =>
        \A c \in callers :
            pc[c] \in {"idle", "returned", "L306", "L318", "L408"}
            => /\ ~is_inference_incremental
               /\ forward = "forward"

\* After a completed generation the next generation passes the assertion.
C5_Witness ==
    \E c \in callers :
        /\ history = "generated"
        /\ pc[c] = "L410"
        /\ \A k \in ConvIdx : buffers[k] # <<>>

\* C6: at step 0 of every generation every convolution buffer is empty.
C6_FreshBuffersAtStepZero ==
    \A c \in callers :
        (pc[c] = "L448" /\ loc[c].t = 0)
        => \A k \in ConvIdx : buffers[k] = clear_buffer

\* Step 0 of a generation that follows a completed one.
C6_Witness ==
    \E c \in callers :
        /\ history = "generated"
        /\ pc[c] = "L448" /\ loc[c].t = 0
        /\ \A k \in ConvIdx : buffers[k] = clear_buffer

IsDistribution(a) ==
    /\ \A i \in TextIdx : a[i][2] > 0 /\ a[i][1] >= 0
    /\ FracEq(FracSum(a, TextIdx), Frac(1, 1))

\* C7: in a call given input lengths, in either mode, every attention
\* layer's alignment sums to 1 and is 0 at every position at or beyond the
\* length.
C7_AlignmentMaskedInBothModes ==
    \A c \in Callers :
        (args[c].lengths # None /\ loc[c].alignments # None)
        => \A k \in AttentionStages :
             /\ IsDistribution(loc[c].alignments[k])
             /\ \A i \in TextIdx :
                  i > args[c].lengths[1] => FracIsZero(loc[c].alignments[k][i])

\* C8: the keys and values handed to the decoder stay as the encoder made
\* them.
C8_EncoderOutputReadOnly ==
    \A c \in Callers :
        enc[c].keys # None
        => /\ enc[c].keys = enc[c].keys0
           /\ enc[c].values = EncoderValues

\* C9: Encoder.forward returns (keys, values) exactly when a speaker
\* embedding is given to a multi-speaker model or none to a single-speaker
\* one, and fails in the two other cases.
C9_SpeakerEmbedIffMultiSpeaker ==
    \A c \in Callers :
        result[c].at = "Encoder.forward"
        => /\ result[c].kind = "encoded" <=> (n_speakers > 1 <=> result[c].has_embed)
           /\ result[c].kind = "encoded" => enc[c].keys # None /\ enc[c].values # None
           /\ result[c].kind # "encoded"
              => /\ result[c].kind \in {"AssertionError", "AttributeError"}
                 /\ enc[c] = NoEnc

\* A single-speaker encoder was given a speaker embedding and failed.
C9_Witness ==
    \E c \in Callers :
        /\ n_speakers = 1
        /\ result[c].at = "Encoder.forward"
        /\ result[c].has_embed
        /\ result[c].kind = "AttributeError"

\* C10: step t consumes the zero frame if t = 0 and the output of step t-1
\* otherwise, and uses query position t + 1: the positions are 1, 2, ... in
\* order and never 0.
C10_Autoregressive ==
    [][\A c \in Callers :
         (pc[c] = "L448" /\ loc'[c].t = loc[c].t + 1)
         => /\ loc'[c].x_in = IF loc[c].t = 0 THEN ZeroFrame ELSE loc[c].last_output
            /\ loc'[c].frame_pos = loc[c].t + 1
            /\ loc'[c].frame_pos = loc[c].frame_pos + 1
            /\ loc'[c].frame_pos >= 1]_vars

\* A step has consumed the previous step's (non-zero) output.
C10_Witness ==
    \E c \in Callers :
        /\ loc[c].t >= 2
        /\ loc[c].x_in \in OutFrames
        /\ loc[c].frame_pos = loc[c].t

\* The mean of the attention stages' alignments at one text position.
MeanOverStages(aligns, i) ==
    FracDiv(FracSum([k \in AttentionStages |-> aligns[k][i]], AttentionStages),
            Cardinality(AttentionStages))

\* C11: with more than one attention layer, the alignment recorded at an
\* incremental step is the sum of the layers' alignments divided by the
\* number of attention layers, and so a distribution over the text.
C11_RecordedAlignmentIsAverage ==
    \A c \in Callers :
        (args[c].inputs = None /\ loc[c].ave_alignment # None
            /\ Cardinality(AttentionStages) > 1)
        => /\ \A i \in TextIdx :
                FracEq(loc[c].ave_alignment[i], MeanOverStages(loc[c].alignments, i))
           /\ IsDistribution(loc[c].ave_alignment)

\* C12: once a generation has ended, by the end-of-frames stop, by the
\* forced stop at the cap or by a failure raised inside the loop, the
\* decoder is marked inactive and its original forward is installed again.
C12_ReleasedOnEveryExit ==
    \A c \in callers :
        (\/ pc[c] = "returned" /\ result[c].kind = "generated"
         \/ pc[c] = "raised" /\ result[c].at \in {"L449", "L483"})
        => /\ ~is_inference_incremental
           /\ forward = "forward"
====
